---- MODULE Spec2Model ----
(***************************************************************************)
(* Model of the audio-extraction pipeline (src/utils/video.ts), of the     *)
(* transcription call (src/services/gemini.ts) and of the generation loop  *)
(* of the App component (src/App.tsx).                                      *)
(*                                                                          *)
(* Numbers.  JavaScript numbers are modelled exactly: a time is an integer *)
(* count of ticks, TicksPerSecond ticks to the second, and a sample is a   *)
(* rational [n, d] (numerator, positive denominator).  Floating-point      *)
(* rounding is therefore outside the model.                                *)
(***************************************************************************)
EXTENDS Integers, Sequences, FiniteSets, TLC

(***************************************************************************)
(* Bounds and input sets of the extraction model.                          *)
(***************************************************************************)
\* Longest decoded buffer, in frames.
MaxFrames == 3
\* Cap on loop iterations, applied only when chunkDuration <= 0 (the loop
\* of extract does not terminate there).
MaxIterations == 12

\* Sample rates of the decoded buffers (Hz).
SampleRates == {10, 20}
\* One tick is one frame period at the highest sample rate.
TicksPerSecond == CHOOSE t \in SampleRates : \A r \in SampleRates : t % r = 0
ChannelCounts == {1, 2}
\* chunkDuration arguments, in ticks (0.05 s each): invalid, too short,
\* exactly the minimum, and longer.
ChunkDurations == {-1, 0, 1, 2, 3}
\* Sample values of the decoded channels: 0, the silence threshold 0.01
\* itself, and -0.02.
ChannelSamples ==
  {[n |-> 0, d |-> 100], [n |-> 1, d |-> 100], [n |-> -2, d |-> 100]}

(***************************************************************************)
(* Arithmetic helpers.                                                     *)
(***************************************************************************)
Min(a, b) == IF a < b THEN a ELSE b
Max(a, b) == IF a > b THEN a ELSE b
Abs(a) == IF a < 0 THEN -a ELSE a
\* Truncation of p/q toward zero, q > 0 (ToInteger of the ECMAScript spec).
Trunc(p, q) == IF p >= 0 THEN p \div q ELSE -((-p) \div q)

RatAdd(x, y) == [n |-> x.n * y.d + y.n * x.d, d |-> x.d * y.d]
RatDivInt(x, k) == [n |-> x.n, d |-> x.d * k]
RatLess(x, y) == x.n * y.d < y.n * x.d
RatLeq(x, y) == x.n * y.d <= y.n * x.d
RatAbs(x) == [n |-> Abs(x.n), d |-> x.d]
RatOfInt(k) == [n |-> k, d |-> 1]

(***************************************************************************)
(* encodeWav (src/utils/video.ts:21-49).  A Blob is its byte sequence.     *)
(***************************************************************************)
\* writeString(view, offset, str): the char codes of the four tags.
TagRIFF == <<82, 73, 70, 70>>
TagWAVE == <<87, 65, 86, 69>>
TagFmt == <<102, 109, 116, 32>>
TagData == <<100, 97, 116, 97>>

\* view.setUint32(o, v, true), for 0 <= v < 2^31.
Uint32LE(v) ==
  <<v % 256, (v \div 256) % 256, (v \div 65536) % 256, (v \div 16777216) % 256>>
\* view.setUint16(o, v, true).
Uint16LE(v) == <<v % 256, (v \div 256) % 256>>
\* view.setInt16(o, x, true) of the number p/q: ToInt16 truncates toward
\* zero and wraps modulo 2^16; the two's-complement bytes are stored.
Int16LE(p, q) == Uint16LE(Trunc(p, q) % 65536)

Scale8000 == 32768
Scale7FFF == 32767

\* const s = Math.max(-1, Math.min(1, samples[i]))
ClampSample(x) ==
  LET lo == IF RatLess(RatOfInt(1), x) THEN RatOfInt(1) ELSE x
  IN  IF RatLess(lo, RatOfInt(-1)) THEN RatOfInt(-1) ELSE lo

\* Mutant of ScaledSample: every sample is scaled by 0x8000.
ScaledSampleSymmetric(x) ==
  LET s == ClampSample(x) IN [n |-> s.n * Scale8000, d |-> s.d]

\* The number handed to setInt16, as a fraction: s < 0 ? s*0x8000 : s*0x7FFF
ScaledSample(x) ==
  LET s == ClampSample(x)
  IN  IF s.n < 0 THEN [n |-> s.n * Scale8000, d |-> s.d]
      ELSE [n |-> s.n * Scale7FFF, d |-> s.d]

SampleBytes(x) == LET v == ScaledSample(x) IN Int16LE(v.n, v.d)

RECURSIVE PcmBytes(_)
PcmBytes(samples) ==
  IF samples = <<>> THEN <<>>
  ELSE SampleBytes(Head(samples)) \o PcmBytes(Tail(samples))

\* Mutant of WavHeader: ChunkSize is the size of the whole file.
WavHeaderFileSize(len, sampleRate) ==
  TagRIFF \o Uint32LE(44 + len * 2) \o TagWAVE \o TagFmt
    \o Uint32LE(16) \o Uint16LE(1) \o Uint16LE(1)
    \o Uint32LE(sampleRate) \o Uint32LE(sampleRate * 2)
    \o Uint16LE(2) \o Uint16LE(16)
    \o TagData \o Uint32LE(len * 2)

WavHeader(len, sampleRate) ==
  TagRIFF \o Uint32LE(36 + len * 2) \o TagWAVE \o TagFmt
    \o Uint32LE(16) \o Uint16LE(1) \o Uint16LE(1)
    \o Uint32LE(sampleRate) \o Uint32LE(sampleRate * 2)
    \o Uint16LE(2) \o Uint16LE(16)
    \o TagData \o Uint32LE(len * 2)

encodeWav(samples, sampleRate) ==
  WavHeader(Len(samples), sampleRate) \o PcmBytes(samples)

(***************************************************************************)
(* blobToBase64 (src/utils/video.ts:8-19).  Text is a sequence of tokens:  *)
(* one-character strings, and the media-type prefix of a data URL.         *)
(***************************************************************************)
Base64Alphabet ==
  <<"A", "B", "C", "D", "E", "F", "G", "H", "I", "J", "K", "L", "M",
    "N", "O", "P", "Q", "R", "S", "T", "U", "V", "W", "X", "Y", "Z",
    "a", "b", "c", "d", "e", "f", "g", "h", "i", "j", "k", "l", "m",
    "n", "o", "p", "q", "r", "s", "t", "u", "v", "w", "x", "y", "z",
    "0", "1", "2", "3", "4", "5", "6", "7", "8", "9", "+", "/">>
B64(i) == Base64Alphabet[i + 1]

RECURSIVE Base64(_)
Base64(b) ==
  IF Len(b) = 0 THEN <<>>
  ELSE IF Len(b) = 1 THEN
    <<B64(b[1] \div 4), B64((b[1] % 4) * 16), "=", "=">>
  ELSE IF Len(b) = 2 THEN
    <<B64(b[1] \div 4), B64((b[1] % 4) * 16 + b[2] \div 16),
      B64((b[2] % 16) * 4), "=">>
  ELSE
    <<B64(b[1] \div 4), B64((b[1] % 4) * 16 + b[2] \div 16),
      B64((b[2] % 16) * 4 + b[3] \div 64), B64(b[3] % 64)>>
      \o Base64(SubSeq(b, 4, Len(b)))

\* reader.readAsDataURL(blob) of a Blob of type audio/wav.
ReadAsDataURL(bytes) == <<"data:audio/wav;base64", ",">> \o Base64(bytes)

\* str.split(',')[1]: the text between the first and the second comma.
SplitCommaSecond(str) ==
  LET commas == {i \in 1..Len(str) : str[i] = ","}
      first == CHOOSE i \in commas : \A j \in commas : i <= j
      later == {i \in commas : i > first}
      stop == IF later = {} THEN Len(str) + 1
              ELSE CHOOSE i \in later : \A j \in later : i <= j
  IN  SubSeq(str, first + 1, stop - 1)

\* The value blobToBase64 resolves with when the read succeeds.
blobToBase64(bytes) == SplitCommaSecond(ReadAsDataURL(bytes))

(***************************************************************************)
(* The decoded audio and one iteration of the loop of extract              *)
(* (src/utils/video.ts:60-91).                                             *)
(***************************************************************************)
AudioBuffers ==
  UNION {UNION {UNION {
    {[channels |-> ch, sampleRate |-> r, numberOfChannels |-> nc, length |-> len]
       : ch \in [1..nc -> [1..len -> ChannelSamples]]}
    : len \in 1..MaxFrames} : nc \in ChannelCounts} : r \in SampleRates}

\* audioBuffer.duration = length / sampleRate, in ticks.
DurationOf(a) == (a.length * TicksPerSecond) \div a.sampleRate

\* SILENCE_THRESHOLD = 0.01 and the minimum chunk duration 0.1, as fractions.
SilenceThreshold == [n |-> 1, d |-> 100]
MinChunkSeconds == [n |-> 1, d |-> 10]

\* Mutant of EndTimeOf: the window is not clamped to the duration.
EndTimeOfUnclamped(a, start, cd) == start + cd

\* const endTime = Math.min(startTime + chunkDuration, totalDuration)
EndTimeOf(a, start, cd) == Min(start + cd, DurationOf(a))

\* Mutant of TooShort: <= in place of <.
TooShortInclusive(cur) ==
  RatLeq([n |-> cur, d |-> TicksPerSecond], MinChunkSeconds)

\* if (currentDuration < 0.1) continue;
TooShort(cur) == RatLess([n |-> cur, d |-> TicksPerSecond], MinChunkSeconds)

\* Mutant of OffsetOf: Math.round in place of Math.floor.
OffsetOfRounded(a, time) ==
  (2 * time * a.sampleRate + TicksPerSecond) \div (2 * TicksPerSecond)

\* Math.floor(time * sampleRate)
OffsetOf(a, time) == (time * a.sampleRate) \div TicksPerSecond

\* TypedArray.prototype.subarray(begin, end)
Subarray(arr, begin, end) ==
  LET len == Len(arr)
      b == IF begin < 0 THEN Max(len + begin, 0) ELSE Min(begin, len)
      e == IF end < 0 THEN Max(len + end, 0) ELSE Min(end, len)
  IN  SubSeq(arr, b + 1, e)

\* monoChannel[i] after the channels 0..c-1 were accumulated into it.
RECURSIVE MixedSample(_, _, _, _, _)
MixedSample(a, startOffset, endOffset, i, c) ==
  IF c = 0 THEN RatOfInt(0)
  ELSE LET acc == MixedSample(a, startOffset, endOffset, i, c - 1)
           channelData == Subarray(a.channels[c], startOffset, endOffset)
       IN  IF i <= Len(channelData)
           THEN RatAdd(acc, RatDivInt(channelData[i], a.numberOfChannels))
           ELSE acc

\* The Float32Array monoChannel built for the window [start, end).
Downmix(a, start, end) ==
  LET startOffset == OffsetOf(a, start)
      endOffset == OffsetOf(a, end)
      frameCount == endOffset - startOffset
  IN  [i \in 1..frameCount |->
         MixedSample(a, startOffset, endOffset, i, a.numberOfChannels)]

\* Mutant of AboveThreshold: >= in place of >.
AtOrAboveThreshold(x) == RatLeq(SilenceThreshold, RatAbs(x))

\* Math.abs(monoChannel[i]) > SILENCE_THRESHOLD
AboveThreshold(x) == RatLess(SilenceThreshold, RatAbs(x))

\* The value of isSilent after the scan of monoChannel.
IsSilent(mono) == \A i \in 1..Len(mono) : ~AboveThreshold(mono[i])

\* What one iteration does with the window that starts at start:
\* "short" and "silent" are the two continue statements, "encode" reaches
\* encodeWav and the await of blobToBase64.
WindowFate(a, start, cd) ==
  LET end == EndTimeOf(a, start, cd)
  IN  IF TooShort(end - start) THEN "short"
      ELSE IF IsSilent(Downmix(a, start, end)) THEN "silent"
      ELSE "encode"

\* const wavBlob = encodeWav(monoChannel, sampleRate)
WindowWav(a, start, cd) ==
  encodeWav(Downmix(a, start, EndTimeOf(a, start, cd)), a.sampleRate)

(***************************************************************************)
(* State.                                                                  *)
(***************************************************************************)
VARIABLES
  \* --- one call of extractAudioChunks (src/utils/video.ts) ---
  audio,          \* what decodeAudioData yields for the file, when it succeeds
  chunkDuration,  \* the chunkDuration argument, in ticks
  wpc,            \* where the worker is: idle, posted, loop, base64, done
  startTime,      \* loop variable of extract
  chunks,         \* the local array chunks of extract
  windows,        \* history: the windows the loop has generated, with their fate
  failure,        \* history: the step that failed (none, decode, base64)
  mainInbox,      \* events the worker has queued for the main thread
  promiseState,   \* none (not called), pending, resolved, rejected
  promiseChunks,  \* the value the promise was resolved with
  promiseError,   \* the message of the Error the promise was rejected with
  terminated,     \* worker.terminate() was called
  urlRevoked,     \* URL.revokeObjectURL(workerUrl) was called
  handled         \* history: number of worker events the main thread handled

extVars ==
  <<audio, chunkDuration, wpc, startTime, chunks, windows, failure, mainInbox,
    promiseState, promiseChunks, promiseError, terminated, urlRevoked, handled>>

VARIABLES
  \* --- one call of encodeWav ---
  wavSamples,     \* the argument samples
  wavRate,        \* the argument sampleRate
  wavBlob,        \* the bytes of the Blob returned
  wavPc           \* input, encoded

wavVars == <<wavSamples, wavRate, wavBlob, wavPc>>

VARIABLES
  \* --- the App component (src/App.tsx) ---
  videoFile,      \* state videoFile: 0 is null, otherwise a file
  videoUrl,       \* state videoUrl: 0 is '', otherwise the URL of that file
  subtitles,      \* state subtitles: the SRT text, <<>> is ''
  isLoading,      \* state isLoading
  loadingMessage, \* state loadingMessage
  appError,       \* state error: NullError is null
  genPc,          \* where handleGenerateClick is: idle, extracting, loop
  genFile,        \* videoFile as captured by the running handleGenerateClick
  audioChunks,    \* local audioChunks of handleGenerateClick
  genI,           \* loop variable i of handleGenerateClick
  allSubtitles,   \* local allSubtitles of handleGenerateClick
  responses,      \* history: what the remote call did for each chunk so far
  subtitlesOf     \* history: the file whose generation set subtitles, 0 for ''

appVars ==
  <<videoFile, videoUrl, subtitles, isLoading, loadingMessage, appError,
    genPc, genFile, audioChunks, genI, allSubtitles, responses, subtitlesOf>>

VARIABLES
  \* --- one call of extractAudioChunks of src/unnamed/part_000, made on the
  \* --- same file and chunkDuration (audio, chunkDuration) ---
  prePc,            \* idle, decoding, loop, base64, done
  preStartTime,     \* loop variable of extract
  preChunks,        \* the local array chunks of extract
  preWindows,       \* history: the windows the loop has generated, with their fate
  preInbox,         \* events the worker has queued for the main thread
  prePromiseState,  \* none (not called), pending, resolved, rejected
  prePromiseChunks, \* the value the promise was resolved with
  prePromiseError,  \* the message of what the promise was rejected with
  preCleaned,       \* cleanup() was called
  preClosed         \* audioContext.close() was called

preVars ==
  <<prePc, preStartTime, preChunks, preWindows, preInbox, prePromiseState,
    prePromiseChunks, prePromiseError, preCleaned, preClosed>>

VARIABLES
  \* --- one call of formatTimestamp ---
  fmtInput,       \* the argument totalSeconds
  fmtOutput,      \* the string returned
  fmtPc           \* input, formatted

fmtVars == <<fmtInput, fmtOutput, fmtPc>>

vars == <<extVars, wavVars, appVars, preVars, fmtVars>>

(***************************************************************************)
(* Messages between the worker and the main thread.                        *)
(***************************************************************************)
DecodeErrorMessage == "Unable to decode audio data"
WorkerFailedMessage == "Worker failed to process audio."
UnknownErrorMessage == "An unknown error occurred in the audio worker."
BackgroundErrorMessage ==
  "Failed to process audio in the background. The file may be unsupported or corrupted."

\* self.postMessage({ type: 'result', chunks })
ResultMessage(cs) ==
  [kind |-> "message", type |-> "result", hasChunks |-> TRUE, chunks |-> cs,
   message |-> ""]
\* self.postMessage({ type: 'error', message: error.message })
ErrorMessage(msg) ==
  [kind |-> "message", type |-> "error", hasChunks |-> FALSE, chunks |-> <<>>,
   message |-> msg]
\* An uncaught exception of the worker script, reported to worker.onerror.
ErrorEvent ==
  [kind |-> "error", type |-> "", hasChunks |-> FALSE, chunks |-> <<>>,
   message |-> ""]

\* catch (e): e instanceof Error ? e : new Error('Worker failed to process audio.')
CaughtMessage(isError, msg) == IF isError THEN msg ELSE WorkerFailedMessage

(***************************************************************************)
(* Init: the program before extractAudioChunks is called.                  *)
(***************************************************************************)
ExtInit ==
  /\ audio \in AudioBuffers
  /\ chunkDuration \in ChunkDurations
  /\ wpc = "idle"
  /\ startTime = 0
  /\ chunks = <<>>
  /\ windows = <<>>
  /\ failure = "none"
  /\ mainInbox = <<>>
  /\ promiseState = "none"
  /\ promiseChunks = <<>>
  /\ promiseError = ""
  /\ terminated = FALSE
  /\ urlRevoked = FALSE
  /\ handled = 0

(***************************************************************************)
(* extractAudioChunks, main thread (src/utils/video.ts:120-148).           *)
(***************************************************************************)
\* new Promise(...): the worker is created and handed the file.
ExtractAudioChunks ==
  /\ promiseState = "none"
  /\ promiseState' = "pending"
  /\ wpc' = "posted"
  /\ UNCHANGED <<audio, chunkDuration, startTime, chunks, windows, failure,
                 mainInbox, promiseChunks, promiseError, terminated,
                 urlRevoked, handled>>
  /\ UNCHANGED <<wavVars, appVars, preVars, fmtVars>>

\* Mutant of OnMessageSettlement: an empty chunks array counts as missing.
OnMessageSettlementNonEmpty(data) ==
  IF data.type = "result" /\ data.hasChunks /\ data.chunks # <<>> THEN "resolve"
  ELSE IF data.type = "error" THEN "reject"
  ELSE "none"

\* What worker.onmessage does with event.data before cleanup().
OnMessageSettlement(data) ==
  IF data.type = "result" /\ data.hasChunks THEN "resolve"
  ELSE IF data.type = "error" THEN "reject"
  ELSE "none"

\* event.data.message || 'An unknown error occurred in the audio worker.'
RejectionMessage(data) ==
  IF data.message # "" THEN data.message ELSE UnknownErrorMessage

\* resolve(v) and reject(e) of a promise: only a pending promise settles.
Settle(how, cs, msg) ==
  IF promiseState = "pending" /\ how = "resolve"
  THEN /\ promiseState' = "resolved"
       /\ promiseChunks' = cs
       /\ promiseError' = promiseError
  ELSE IF promiseState = "pending" /\ how = "reject"
  THEN /\ promiseState' = "rejected"
       /\ promiseError' = msg
       /\ promiseChunks' = promiseChunks
  ELSE UNCHANGED <<promiseState, promiseChunks, promiseError>>

\* cleanup()
Cleanup ==
  /\ terminated' = TRUE
  /\ urlRevoked' = TRUE

\* worker.onmessage
WorkerOnMessage ==
  /\ mainInbox # <<>>
  /\ Head(mainInbox).kind = "message"
  /\ LET data == Head(mainInbox)
     IN  Settle(OnMessageSettlement(data), data.chunks, RejectionMessage(data))
  /\ Cleanup
  /\ mainInbox' = Tail(mainInbox)
  /\ handled' = handled + 1
  /\ UNCHANGED <<audio, chunkDuration, wpc, startTime, chunks, windows, failure>>
  /\ UNCHANGED <<wavVars, appVars, preVars, fmtVars>>

\* worker.onerror
WorkerOnError ==
  /\ mainInbox # <<>>
  /\ Head(mainInbox).kind = "error"
  /\ Settle("reject", <<>>, BackgroundErrorMessage)
  /\ Cleanup
  /\ mainInbox' = Tail(mainInbox)
  /\ handled' = handled + 1
  /\ UNCHANGED <<audio, chunkDuration, wpc, startTime, chunks, windows, failure>>
  /\ UNCHANGED <<wavVars, appVars, preVars, fmtVars>>

(***************************************************************************)
(* The worker: self.onmessage and extract (src/utils/video.ts:52-109).     *)
(***************************************************************************)
\* self.onmessage up to the first loop test: file.arrayBuffer() and
\* decodeAudioData succeed.
DecodeSucceeds ==
  /\ wpc = "posted"
  /\ wpc' = "loop"
  /\ startTime' = 0
  /\ chunks' = <<>>
  /\ UNCHANGED <<audio, chunkDuration, windows, failure, mainInbox,
                 promiseState, promiseChunks, promiseError, terminated,
                 urlRevoked, handled>>
  /\ UNCHANGED <<wavVars, appVars, preVars, fmtVars>>

\* The AudioContext cannot be built, or the bytes cannot be read or decoded:
\* extract throws (finally closes the context), self.onmessage catches and
\* posts the error.
DecodeFails ==
  /\ wpc = "posted"
  /\ wpc' = "done"
  /\ failure' = "decode"
  /\ mainInbox' = Append(mainInbox, ErrorMessage(CaughtMessage(TRUE, DecodeErrorMessage)))
  /\ UNCHANGED <<audio, chunkDuration, startTime, chunks, windows,
                 promiseState, promiseChunks, promiseError, terminated,
                 urlRevoked, handled>>
  /\ UNCHANGED <<wavVars, appVars, preVars, fmtVars>>

\* Mutant of ChunkOf: duration is chunkDuration, not currentDuration.
ChunkOfNominalDuration(a, start, cd) ==
  [startTime |-> start,
   duration |-> cd,
   base64 |-> blobToBase64(WindowWav(a, start, cd))]

\* { startTime, duration: currentDuration, base64 }
ChunkOf(a, start, cd) ==
  [startTime |-> start,
   duration |-> EndTimeOf(a, start, cd) - start,
   base64 |-> blobToBase64(WindowWav(a, start, cd))]

\* One iteration of the for loop, up to its continue or to the await of
\* blobToBase64.
LoopIteration ==
  /\ wpc = "loop"
  /\ startTime < DurationOf(audio)
  /\ chunkDuration > 0 \/ Len(windows) < MaxIterations
  /\ LET fate == WindowFate(audio, startTime, chunkDuration)
     IN  /\ windows' = Append(windows,
                         [startTime |-> startTime,
                          endTime |-> EndTimeOf(audio, startTime, chunkDuration),
                          fate |-> fate])
         /\ IF fate = "encode"
            THEN /\ wpc' = "base64"
                 /\ startTime' = startTime
            ELSE /\ wpc' = "loop"
                 /\ startTime' = startTime + chunkDuration
  /\ UNCHANGED <<audio, chunkDuration, chunks, failure, mainInbox,
                 promiseState, promiseChunks, promiseError, terminated,
                 urlRevoked, handled>>
  /\ UNCHANGED <<wavVars, appVars, preVars, fmtVars>>

\* reader.onloadend after a successful read: the chunk is pushed and the
\* loop advances.
Base64Resolves ==
  /\ wpc = "base64"
  /\ chunks' = Append(chunks, ChunkOf(audio, startTime, chunkDuration))
  /\ startTime' = startTime + chunkDuration
  /\ wpc' = "loop"
  /\ UNCHANGED <<audio, chunkDuration, windows, failure, mainInbox,
                 promiseState, promiseChunks, promiseError, terminated,
                 urlRevoked, handled>>
  /\ UNCHANGED <<wavVars, appVars, preVars, fmtVars>>

\* Mutant of Base64Rejects: the failure is swallowed and the chunks built so
\* far are posted as the result.
Base64RejectsPartial ==
  /\ wpc = "base64"
  /\ wpc' = "done"
  /\ failure' = "base64"
  /\ mainInbox' = Append(mainInbox, ResultMessage(chunks))
  /\ UNCHANGED <<audio, chunkDuration, startTime, chunks, windows,
                 promiseState, promiseChunks, promiseError, terminated,
                 urlRevoked, handled>>
  /\ UNCHANGED <<wavVars, appVars, preVars, fmtVars>>

\* The read fails: reader.onerror rejects with the event (no Error), extract
\* throws, self.onmessage posts the error; reader.onloadend then runs with
\* reader.result = null and its split throws an uncaught TypeError, which is
\* reported to worker.onerror.
Base64Rejects ==
  /\ wpc = "base64"
  /\ wpc' = "done"
  /\ failure' = "base64"
  /\ mainInbox' = mainInbox \o
       <<ErrorMessage(CaughtMessage(FALSE, "")), ErrorEvent>>
  /\ UNCHANGED <<audio, chunkDuration, startTime, chunks, windows,
                 promiseState, promiseChunks, promiseError, terminated,
                 urlRevoked, handled>>
  /\ UNCHANGED <<wavVars, appVars, preVars, fmtVars>>

\* The loop test fails: extract returns chunks and self.onmessage posts them.
LoopExit ==
  /\ wpc = "loop"
  /\ ~(startTime < DurationOf(audio))
  /\ wpc' = "done"
  /\ mainInbox' = Append(mainInbox, ResultMessage(chunks))
  /\ UNCHANGED <<audio, chunkDuration, startTime, chunks, windows, failure,
                 promiseState, promiseChunks, promiseError, terminated,
                 urlRevoked, handled>>
  /\ UNCHANGED <<wavVars, appVars, preVars, fmtVars>>

(***************************************************************************)
(* The second implementation (src/unnamed/part_000): the main thread       *)
(* decodes the file and hands the worker the channels; the loop of extract *)
(* has one more continue.  encodeWav, blobToBase64, worker.onmessage and   *)
(* worker.onerror have the text they have in src/utils/video.ts.           *)
(***************************************************************************)
\* Longest decoded audio of the comparison, in frames.
MaxPairFrames == 2
\* Sample rates of the comparison: at 5 Hz a window of 0.1 s or more can
\* hold no sample.
PairSampleRates == SampleRates \cup {5}
\* Chunk durations of the comparison, in ticks: 0.1 s, 0.15 s, 0.2 s.
PairChunkDurations == {2, 3, 4}

\* The channels, sampleRate, numberOfChannels and duration posted to the
\* worker.
PairAudioBuffers ==
  UNION {UNION {UNION {
    {[channels |-> ch, sampleRate |-> r, numberOfChannels |-> nc, length |-> len]
       : ch \in [1..nc -> [1..len -> ChannelSamples]]}
    : len \in 1..MaxPairFrames} : nc \in ChannelCounts} : r \in PairSampleRates}

\* What decodeAudioData (or file.arrayBuffer) rejects with on the main thread.
PreDecodeRejection == "EncodingError"

\* Mutant of PreWindowFate: the continue is taken for one frame as well.
PreWindowFateOneFrame(a, start, cd) ==
  LET end == EndTimeOf(a, start, cd)
      frameCount == OffsetOf(a, end) - OffsetOf(a, start)
  IN  IF TooShort(end - start) THEN "short"
      ELSE IF frameCount <= 1 THEN "noFrames"
      ELSE IF IsSilent(Downmix(a, start, end)) THEN "silent"
      ELSE "encode"

\* What one iteration of the loop of part_000 does with the window that
\* starts at start: "noFrames" is if (frameCount <= 0) continue.
PreWindowFate(a, start, cd) ==
  LET end == EndTimeOf(a, start, cd)
      frameCount == OffsetOf(a, end) - OffsetOf(a, start)
  IN  IF TooShort(end - start) THEN "short"
      ELSE IF frameCount <= 0 THEN "noFrames"
      ELSE IF IsSilent(Downmix(a, start, end)) THEN "silent"
      ELSE "encode"

PreInit ==
  /\ prePc = "idle"
  /\ preStartTime = 0
  /\ preChunks = <<>>
  /\ preWindows = <<>>
  /\ preInbox = <<>>
  /\ prePromiseState = "none"
  /\ prePromiseChunks = <<>>
  /\ prePromiseError = ""
  /\ preCleaned = FALSE
  /\ preClosed = FALSE

PreIdle == PreInit

\* resolve(v) and reject(e) of the promise of part_000.
PreSettle(how, cs, msg) ==
  IF prePromiseState = "pending" /\ how = "resolve"
  THEN /\ prePromiseState' = "resolved"
       /\ prePromiseChunks' = cs
       /\ prePromiseError' = prePromiseError
  ELSE IF prePromiseState = "pending" /\ how = "reject"
  THEN /\ prePromiseState' = "rejected"
       /\ prePromiseError' = msg
       /\ prePromiseChunks' = prePromiseChunks
  ELSE UNCHANGED <<prePromiseState, prePromiseChunks, prePromiseError>>

\* extractAudioChunks is called, up to its first await.  The comparison
\* makes this call on the file and chunkDuration of a call of the first
\* implementation that has resolved; the two calls share no state.
PreExtractAudioChunks ==
  /\ promiseState = "resolved"
  /\ prePromiseState = "none"
  /\ prePromiseState' = "pending"
  /\ prePc' = "decoding"
  /\ UNCHANGED <<preStartTime, preChunks, preWindows, preInbox,
                 prePromiseChunks, prePromiseError, preCleaned, preClosed>>
  /\ UNCHANGED <<extVars, wavVars, appVars, fmtVars>>

\* decodeAudioData resolves: the worker is created and posted the channels,
\* finally closes the context, and the worker enters the loop of extract.
PreDecodeSucceeds ==
  /\ prePc = "decoding"
  /\ prePc' = "loop"
  /\ preStartTime' = 0
  /\ preChunks' = <<>>
  /\ preClosed' = TRUE
  /\ UNCHANGED <<preWindows, preInbox, prePromiseState, prePromiseChunks,
                 prePromiseError, preCleaned>>
  /\ UNCHANGED <<extVars, wavVars, appVars, fmtVars>>

\* The context cannot be built (nothing to close), or the bytes cannot be
\* read or decoded (finally closes the context): the call rejects and no
\* worker is created.
PreDecodeFails ==
  /\ prePc = "decoding"
  /\ prePc' = "done"
  /\ PreSettle("reject", <<>>, PreDecodeRejection)
  /\ \E closed \in BOOLEAN : preClosed' = closed
  /\ UNCHANGED <<preStartTime, preChunks, preWindows, preInbox, preCleaned>>
  /\ UNCHANGED <<extVars, wavVars, appVars, fmtVars>>

\* One iteration of the for loop, up to a continue or to the await of
\* blobToBase64.
PreLoopIteration ==
  /\ prePc = "loop"
  /\ preStartTime < DurationOf(audio)
  /\ chunkDuration > 0 \/ Len(preWindows) < MaxIterations
  /\ LET fate == PreWindowFate(audio, preStartTime, chunkDuration)
     IN  /\ preWindows' = Append(preWindows,
                            [startTime |-> preStartTime,
                             endTime |-> EndTimeOf(audio, preStartTime, chunkDuration),
                             fate |-> fate])
         /\ IF fate = "encode"
            THEN /\ prePc' = "base64"
                 /\ preStartTime' = preStartTime
            ELSE /\ prePc' = "loop"
                 /\ preStartTime' = preStartTime + chunkDuration
  /\ UNCHANGED <<preChunks, preInbox, prePromiseState, prePromiseChunks,
                 prePromiseError, preCleaned, preClosed>>
  /\ UNCHANGED <<extVars, wavVars, appVars, fmtVars>>

\* The read succeeds: the chunk is pushed and the loop advances.
PreBase64Resolves ==
  /\ prePc = "base64"
  /\ preChunks' = Append(preChunks, ChunkOf(audio, preStartTime, chunkDuration))
  /\ preStartTime' = preStartTime + chunkDuration
  /\ prePc' = "loop"
  /\ UNCHANGED <<preWindows, preInbox, prePromiseState, prePromiseChunks,
                 prePromiseError, preCleaned, preClosed>>
  /\ UNCHANGED <<extVars, wavVars, appVars, fmtVars>>

\* The read fails: the error message is posted, and the TypeError of
\* reader.onloadend is reported to worker.onerror.
PreBase64Rejects ==
  /\ prePc = "base64"
  /\ prePc' = "done"
  /\ preInbox' = preInbox \o
       <<ErrorMessage(CaughtMessage(FALSE, "")), ErrorEvent>>
  /\ UNCHANGED <<preStartTime, preChunks, preWindows, prePromiseState,
                 prePromiseChunks, prePromiseError, preCleaned, preClosed>>
  /\ UNCHANGED <<extVars, wavVars, appVars, fmtVars>>

\* The loop test fails: extract returns chunks and self.onmessage posts them.
PreLoopExit ==
  /\ prePc = "loop"
  /\ ~(preStartTime < DurationOf(audio))
  /\ prePc' = "done"
  /\ preInbox' = Append(preInbox, ResultMessage(preChunks))
  /\ UNCHANGED <<preStartTime, preChunks, preWindows, prePromiseState,
                 prePromiseChunks, prePromiseError, preCleaned, preClosed>>
  /\ UNCHANGED <<extVars, wavVars, appVars, fmtVars>>

\* worker.onmessage
PreWorkerOnMessage ==
  /\ preInbox # <<>>
  /\ Head(preInbox).kind = "message"
  /\ LET data == Head(preInbox)
     IN  PreSettle(OnMessageSettlement(data), data.chunks, RejectionMessage(data))
  /\ preCleaned' = TRUE
  /\ preInbox' = Tail(preInbox)
  /\ UNCHANGED <<prePc, preStartTime, preChunks, preWindows, preClosed>>
  /\ UNCHANGED <<extVars, wavVars, appVars, fmtVars>>

\* worker.onerror
PreWorkerOnError ==
  /\ preInbox # <<>>
  /\ Head(preInbox).kind = "error"
  /\ PreSettle("reject", <<>>, BackgroundErrorMessage)
  /\ preCleaned' = TRUE
  /\ preInbox' = Tail(preInbox)
  /\ UNCHANGED <<prePc, preStartTime, preChunks, preWindows, preClosed>>
  /\ UNCHANGED <<extVars, wavVars, appVars, fmtVars>>

(***************************************************************************)
(* encodeWav on its own: the inputs are drawn in Init, the action applies  *)
(* the function.                                                           *)
(***************************************************************************)
\* Longest sample array handed to encodeWav.
MaxWavSamples == 2
WavSampleRates == {8000, 44100, 48000}
\* Samples in quarters from -1.5 to 1.5, and four values next to zero.
WavSampleValues ==
  {[n |-> k, d |-> 4] : k \in -6..6}
    \cup {[n |-> k, d |-> 65536] : k \in {-3, -1, 1, 3}}

RECURSIVE SeqsUpTo(_, _)
SeqsUpTo(S, len) ==
  IF len = 0 THEN {<<>>}
  ELSE LET shorter == SeqsUpTo(S, len - 1)
       IN  shorter \cup {Append(q, x) : q \in shorter, x \in S}

WavInit ==
  /\ wavSamples \in SeqsUpTo(WavSampleValues, MaxWavSamples)
  /\ wavRate \in WavSampleRates
  /\ wavBlob = <<>>
  /\ wavPc = "input"

WavIdle ==
  /\ wavSamples = <<>>
  /\ wavRate = 0
  /\ wavBlob = <<>>
  /\ wavPc = "unused"

EncodeWav ==
  /\ wavPc = "input"
  /\ wavBlob' = encodeWav(wavSamples, wavRate)
  /\ wavPc' = "encoded"
  /\ UNCHANGED <<wavSamples, wavRate>>
  /\ UNCHANGED <<extVars, appVars, preVars, fmtVars>>

ExtIdle ==
  /\ audio = [channels |-> <<>>, sampleRate |-> 0, numberOfChannels |-> 0,
              length |-> 0]
  /\ chunkDuration = 0
  /\ wpc = "unused"
  /\ startTime = 0
  /\ chunks = <<>>
  /\ windows = <<>>
  /\ failure = "none"
  /\ mainInbox = <<>>
  /\ promiseState = "unused"
  /\ promiseChunks = <<>>
  /\ promiseError = ""
  /\ terminated = FALSE
  /\ urlRevoked = FALSE
  /\ handled = 0

(***************************************************************************)
(* formatTimestamp and formatSrt (src/unnamed/part_001).  A string is a    *)
(* sequence of tokens; a time in seconds is a rational [n, d].             *)
(***************************************************************************)
DigitChars == <<"0", "1", "2", "3", "4", "5", "6", "7", "8", "9">>

\* Number.prototype.toString() of a natural number.
RECURSIVE NumberToString(_)
NumberToString(k) ==
  IF k < 10 THEN <<DigitChars[k + 1]>>
  ELSE NumberToString(k \div 10) \o <<DigitChars[(k % 10) + 1]>>

\* String.prototype.padStart(len, ch)
PadStart(str, len, ch) ==
  IF Len(str) >= len THEN str
  ELSE [i \in 1..(len - Len(str)) |-> ch] \o str

\* Math.round(p/q), q > 0: the integer nearest, halves rounded up.
Round(p, q) == (2 * p + q) \div (2 * q)

formatTimestamp(totalSeconds) ==
  LET n == totalSeconds.n
      d == totalSeconds.d
      hours == PadStart(NumberToString(n \div (3600 * d)), 2, "0")
      minutes == PadStart(NumberToString((n % (3600 * d)) \div (60 * d)), 2, "0")
      seconds == PadStart(NumberToString((n % (60 * d)) \div d), 2, "0")
      milliseconds ==
        PadStart(NumberToString(Round((n - (n \div d) * d) * 1000, d)), 3, "0")
  IN  hours \o <<":">> \o minutes \o <<":">> \o seconds \o <<",">> \o milliseconds

\* `${index + 1}\n${entry.startTime} --> ${entry.endTime}\n${entry.chineseText}`
SrtBlock(entry, index) ==
  NumberToString(index + 1) \o <<"\n">> \o entry.startTime \o <<" --> ">>
    \o entry.endTime \o <<"\n">> \o entry.chineseText

\* data.map(...).join('\n\n'), from the entry at index (0-based) on.
RECURSIVE SrtFrom(_, _)
SrtFrom(data, index) ==
  IF index >= Len(data) THEN <<>>
  ELSE IF index = Len(data) - 1 THEN SrtBlock(data[index + 1], index)
  ELSE SrtBlock(data[index + 1], index) \o <<"\n\n">> \o SrtFrom(data, index + 1)

formatSrt(data) == SrtFrom(data, 0)

(***************************************************************************)
(* formatTimestamp on its own: the input is drawn in Init, the action      *)
(* applies the function.                                                   *)
(***************************************************************************)
\* Whole seconds of the inputs: around the minute, the hour and the day.
TimestampSeconds == {0, 14, 59, 60, 3599, 3600, 86399}
\* The inputs: those whole seconds plus every multiple of 0.1 ms below 1 s.
TimestampInputs ==
  {[n |-> w * 10000 + f, d |-> 10000] : w \in TimestampSeconds, f \in 0..9999}

FmtInit ==
  /\ fmtInput \in TimestampInputs
  /\ fmtOutput = <<>>
  /\ fmtPc = "input"

FmtIdle ==
  /\ fmtInput = RatOfInt(0)
  /\ fmtOutput = <<>>
  /\ fmtPc = "input"

FormatTimestamp ==
  /\ fmtPc = "input"
  /\ fmtOutput' = formatTimestamp(fmtInput)
  /\ fmtPc' = "formatted"
  /\ UNCHANGED fmtInput
  /\ UNCHANGED <<extVars, wavVars, appVars, preVars>>

(***************************************************************************)
(* generateSubtitleForChunk (src/services/gemini.ts:25-55).                *)
(***************************************************************************)
\* String.prototype.trim(), the space being the only white space of the model.
RECURSIVE TrimStart(_)
TrimStart(str) ==
  IF str # <<>> /\ Head(str) = " " THEN TrimStart(Tail(str)) ELSE str
RECURSIVE TrimEnd(_)
TrimEnd(str) ==
  IF str # <<>> /\ str[Len(str)] = " "
  THEN TrimEnd(SubSeq(str, 1, Len(str) - 1)) ELSE str
Trim(str) == TrimEnd(TrimStart(str))

\* What ai.models.generateContent does: it throws, or it returns a response
\* whose text is undefined or a string.
TranscribeOutcomes ==
  {[kind |-> "throw", text |-> <<>>], [kind |-> "undefined", text |-> <<>>]}
    \cup {[kind |-> "text", text |-> t] :
            t \in {<<>>, <<" ">>, <<"x">>, <<" ", "x", " ">>}}

\* Mutant of generateSubtitleForChunk: the catch block rethrows.
generateSubtitleForChunkRethrows(chunk, outcome) ==
  IF chunk.base64 = <<>> THEN [raised |-> FALSE, value |-> <<>>]
  ELSE IF outcome.kind = "throw" THEN [raised |-> TRUE, value |-> <<>>]
  ELSE IF outcome.kind = "undefined" THEN [raised |-> FALSE, value |-> <<>>]
  ELSE [raised |-> FALSE, value |-> Trim(outcome.text)]

\* The call: raised tells whether the promise rejects, value is the string
\* it resolves with.
generateSubtitleForChunk(chunk, outcome) ==
  IF chunk.base64 = <<>> THEN [raised |-> FALSE, value |-> <<>>]
  ELSE IF outcome.kind = "throw" THEN [raised |-> FALSE, value |-> <<>>]
  ELSE IF outcome.kind = "undefined" THEN [raised |-> FALSE, value |-> <<>>]
  ELSE [raised |-> FALSE, value |-> Trim(outcome.text)]

(***************************************************************************)
(* The App component (src/App.tsx:14-93).  The states isCopied and the     *)
(* handler handleCopy are left out: they touch no other state.             *)
(***************************************************************************)
\* Most windows of a file handed to the App.
MaxAppWindows == 3
AppFiles == {1, 2}
\* extractAudioChunks(videoFile, 15)
AppChunkSeconds == 15
\* Duration of a last window shorter than 15 s: 5.05 s.
ShortLastWindow == [n |-> 101, d |-> 20]
\* The first bytes of a WAV file ("RIFF") in base64.
AppBase64 == <<"U", "k", "l", "G">>

NullError == "null"
ErrorInvalidFile == "errorInvalidFile"
ErrorNoAudio ==
  "Could not extract any audio from the file. The file might be silent, too short, or in an unsupported format."
ErrorNoTranslation ==
  "The AI model did not return any valid translations. The audio may be silent or contain no clear speech."
NoMessage == [step |-> 0, current |-> 0, total |-> 0]

\* The chunk of window k of a file of count windows whose last window
\* lasts last seconds.
AppChunk(k, count, last) ==
  [startTime |-> RatOfInt(AppChunkSeconds * k),
   duration |-> IF k = count - 1 THEN last ELSE RatOfInt(AppChunkSeconds),
   base64 |-> AppBase64]

\* The chunks of the windows in kept with index >= k, in window order.
RECURSIVE AppChunksFrom(_, _, _, _)
AppChunksFrom(k, count, last, kept) ==
  IF k >= count THEN <<>>
  ELSE (IF k \in kept THEN <<AppChunk(k, count, last)>> ELSE <<>>)
         \o AppChunksFrom(k + 1, count, last, kept)

\* What extractAudioChunks(file, 15) can resolve with: any subset of the
\* windows of a file (the others were silent or too short).
AppChunkSequences ==
  UNION {UNION {
    {AppChunksFrom(0, count, last, kept) : kept \in SUBSET (0..(count - 1))}
    : last \in {RatOfInt(AppChunkSeconds), ShortLastWindow}}
    : count \in 1..MaxAppWindows}

\* What extractAudioChunks can reject with.
AppRejections ==
  {DecodeErrorMessage, WorkerFailedMessage, BackgroundErrorMessage}

AppInit ==
  /\ videoFile = 0
  /\ videoUrl = 0
  /\ subtitles = <<>>
  /\ isLoading = FALSE
  /\ loadingMessage = NoMessage
  /\ appError = NullError
  /\ genPc = "idle"
  /\ genFile = 0
  /\ audioChunks = <<>>
  /\ genI = 0
  /\ allSubtitles = <<>>
  /\ responses = <<>>
  /\ subtitlesOf = 0

AppIdle == AppInit

\* handleFileChange with a video or audio file.
HandleFileChange ==
  \E file \in AppFiles :
    /\ videoFile' = file
    /\ videoUrl' = file
    /\ subtitles' = <<>>
    /\ subtitlesOf' = 0
    /\ appError' = NullError
    /\ UNCHANGED <<isLoading, loadingMessage, genPc, genFile, audioChunks,
                   genI, allSubtitles, responses>>
    /\ UNCHANGED <<extVars, wavVars, preVars, fmtVars>>

\* handleFileChange with no file or a file of another type.
HandleInvalidFile ==
  /\ appError' = ErrorInvalidFile
  /\ videoFile' = 0
  /\ videoUrl' = 0
  /\ UNCHANGED <<subtitles, subtitlesOf, isLoading, loadingMessage, genPc,
                 genFile, audioChunks, genI, allSubtitles, responses>>
  /\ UNCHANGED <<extVars, wavVars, preVars, fmtVars>>

\* handleGenerateClick up to the await of extractAudioChunks.  The button
\* is disabled while !videoFile || isLoading (src/App.tsx:178).
HandleGenerateClick ==
  /\ videoFile # 0
  /\ ~isLoading
  /\ genPc = "idle"
  /\ isLoading' = TRUE
  /\ appError' = NullError
  /\ subtitles' = <<>>
  /\ subtitlesOf' = 0
  /\ loadingMessage' = [step |-> 1, current |-> 0, total |-> 0]
  /\ genPc' = "extracting"
  /\ genFile' = videoFile
  /\ audioChunks' = <<>>
  /\ genI' = 0
  /\ allSubtitles' = <<>>
  /\ responses' = <<>>
  /\ UNCHANGED <<videoFile, videoUrl>>
  /\ UNCHANGED <<extVars, wavVars, preVars, fmtVars>>

\* catch (err) { setError(err.message) } finally { ... }
GenerationFails(msg) ==
  /\ appError' = msg
  /\ isLoading' = FALSE
  /\ loadingMessage' = NoMessage
  /\ genPc' = "idle"

\* extractAudioChunks rejects.
ExtractionRejects ==
  \E msg \in AppRejections :
    /\ genPc = "extracting"
    /\ GenerationFails(msg)
    /\ UNCHANGED <<videoFile, videoUrl, subtitles, subtitlesOf, genFile,
                   audioChunks, genI, allSubtitles, responses>>
    /\ UNCHANGED <<extVars, wavVars, preVars, fmtVars>>

\* extractAudioChunks resolves: the length test, and the first iteration up
\* to its await.
ExtractionResolves ==
  \E cs \in AppChunkSequences :
    /\ genPc = "extracting"
    /\ audioChunks' = cs
    /\ IF Len(cs) = 0
       THEN /\ GenerationFails(ErrorNoAudio)
            /\ UNCHANGED genI
       ELSE /\ genPc' = "loop"
            /\ genI' = 0
            /\ loadingMessage' = [step |-> 2, current |-> 1, total |-> Len(cs)]
            /\ UNCHANGED <<appError, isLoading>>
    /\ UNCHANGED <<videoFile, videoUrl, subtitles, subtitlesOf, genFile,
                   allSubtitles, responses>>
    /\ UNCHANGED <<extVars, wavVars, preVars, fmtVars>>

\* The SubtitleEntry pushed for a chunk.
EntryOf(chunk, translatedText) ==
  [id |-> 0,
   startTime |-> formatTimestamp(chunk.startTime),
   endTime |-> formatTimestamp(RatAdd(chunk.startTime, chunk.duration)),
   chineseText |-> Trim(translatedText)]

\* if (translatedText && translatedText.trim())
KeepsText(translatedText) == translatedText # <<>> /\ Trim(translatedText) # <<>>

\* The await of generateSubtitleForChunk returns or throws, and the handler
\* runs on to its next await or to its end.
TranscribeChunk ==
  \E outcome \in TranscribeOutcomes :
    LET chunk == audioChunks[genI + 1]
        result == generateSubtitleForChunk(chunk, outcome)
        pushed == IF KeepsText(result.value)
                  THEN Append(allSubtitles, EntryOf(chunk, result.value))
                  ELSE allSubtitles
    IN  /\ genPc = "loop"
        /\ responses' = Append(responses, [outcome |-> outcome,
                                           raised |-> result.raised])
        /\ IF result.raised
           THEN /\ GenerationFails(WorkerFailedMessage)
                /\ UNCHANGED <<genI, allSubtitles, subtitles, subtitlesOf>>
           ELSE /\ allSubtitles' = pushed
                /\ genI' = genI + 1
                /\ IF genI + 1 < Len(audioChunks)
                   THEN /\ loadingMessage' =
                             [step |-> 2, current |-> genI + 2,
                              total |-> Len(audioChunks)]
                        /\ UNCHANGED <<genPc, appError, isLoading, subtitles,
                                       subtitlesOf>>
                   ELSE IF pushed = <<>>
                   THEN /\ GenerationFails(ErrorNoTranslation)
                        /\ UNCHANGED <<subtitles, subtitlesOf>>
                   ELSE /\ subtitles' = formatSrt(pushed)
                        /\ subtitlesOf' = genFile
                        /\ isLoading' = FALSE
                        /\ loadingMessage' = NoMessage
                        /\ genPc' = "idle"
                        /\ UNCHANGED appError
        /\ UNCHANGED <<videoFile, videoUrl, genFile, audioChunks>>
        /\ UNCHANGED <<extVars, wavVars, preVars, fmtVars>>

(***************************************************************************)
(* Specifications.                                                         *)
(***************************************************************************)
Init == ExtInit /\ WavIdle /\ AppIdle /\ PreIdle /\ FmtIdle
Next ==
  \/ ExtractAudioChunks
  \/ DecodeSucceeds
  \/ DecodeFails
  \/ LoopIteration
  \/ Base64Resolves
  \/ Base64Rejects
  \/ LoopExit
  \/ WorkerOnMessage
  \/ WorkerOnError
\* One call of extractAudioChunks.
Spec == Init /\ [][Next]_vars

WavSpecInit == WavInit /\ ExtIdle /\ AppIdle /\ PreIdle /\ FmtIdle
WavSpecNext == EncodeWav
\* One call of encodeWav.
WavSpec == WavSpecInit /\ [][WavSpecNext]_vars

AppSpecInit == AppInit /\ ExtIdle /\ WavIdle /\ PreIdle /\ FmtIdle
AppSpecNext ==
  \/ HandleFileChange
  \/ HandleInvalidFile
  \/ HandleGenerateClick
  \/ ExtractionRejects
  \/ ExtractionResolves
  \/ TranscribeChunk
\* The App component, extractAudioChunks and the remote call being inputs.
AppSpec == AppSpecInit /\ [][AppSpecNext]_vars

\* The two implementations of extractAudioChunks on the same decoded audio
\* and the same positive chunkDuration.
PairSpecInit ==
  /\ audio \in PairAudioBuffers
  /\ chunkDuration \in PairChunkDurations
  /\ wpc = "idle"
  /\ startTime = 0
  /\ chunks = <<>>
  /\ windows = <<>>
  /\ failure = "none"
  /\ mainInbox = <<>>
  /\ promiseState = "none"
  /\ promiseChunks = <<>>
  /\ promiseError = ""
  /\ terminated = FALSE
  /\ urlRevoked = FALSE
  /\ handled = 0
  /\ PreInit
  /\ WavIdle
  /\ AppIdle
  /\ FmtIdle
PairSpecNext ==
  \/ ExtractAudioChunks
  \/ WorkerOnMessage
  \/ WorkerOnError
  \/ DecodeSucceeds
  \/ DecodeFails
  \/ LoopIteration
  \/ Base64Resolves
  \/ Base64Rejects
  \/ LoopExit
  \/ PreExtractAudioChunks
  \/ PreDecodeSucceeds
  \/ PreDecodeFails
  \/ PreLoopIteration
  \/ PreBase64Resolves
  \/ PreBase64Rejects
  \/ PreLoopExit
  \/ PreWorkerOnMessage
  \/ PreWorkerOnError
PairSpec == PairSpecInit /\ [][PairSpecNext]_vars

FmtSpecInit == FmtInit /\ ExtIdle /\ WavIdle /\ AppIdle /\ PreIdle
FmtSpecNext == FormatTimestamp
FmtSpec == FmtSpecInit /\ [][FmtSpecNext]_vars

(***************************************************************************)
(* Properties of extract and extractAudioChunks, checked under Spec.       *)
(***************************************************************************)
LastWindow == windows[Len(windows)]
WindowLength(w) == w.endTime - w.startTime
\* The loop of extract ran to its end and the result was posted.
LoopCompleted == wpc = "done" /\ failure = "none"

\* C1: for chunkDuration > 0 the k-th window generated (k from 0) is
\* [k*chunkDuration, min((k+1)*chunkDuration, duration)); the windows are
\* ordered, non-empty, contiguous, start at 0 and, once the loop has ended,
\* end at duration.
C1_WindowsPartition ==
  chunkDuration > 0 =>
    /\ \A k \in 1..Len(windows) :
         /\ windows[k].startTime = (k - 1) * chunkDuration
         /\ windows[k].endTime = Min(k * chunkDuration, DurationOf(audio))
         /\ windows[k].startTime < windows[k].endTime
    /\ \A k \in 1..(Len(windows) - 1) :
         windows[k].endTime = windows[k + 1].startTime
    /\ LoopCompleted =>
         /\ windows # <<>>
         /\ windows[1].startTime = 0
         /\ LastWindow.endTime = DurationOf(audio)

\* The loop has ended after several windows, the last one a partial window.
C1_Witness ==
  /\ chunkDuration > 0
  /\ LoopCompleted
  /\ Len(windows) >= 2
  /\ WindowLength(LastWindow) < chunkDuration

\* C2: no chunk lasts less than 0.1 s; a window is dropped by the length
\* test exactly when it lasts less than 0.1 s, it then yields no chunk, and
\* every chunk keeps the length of its own window (nothing is merged).
C2_NoShortChunk ==
  /\ \A i \in 1..Len(chunks) : chunks[i].duration * 10 >= TicksPerSecond
  /\ \A i \in 1..Len(promiseChunks) :
       promiseChunks[i].duration * 10 >= TicksPerSecond
  /\ \A k \in 1..Len(windows) :
       /\ (windows[k].fate = "short") <=>
            (WindowLength(windows[k]) * 10 < TicksPerSecond)
       /\ windows[k].fate = "short" =>
            \A i \in 1..Len(chunks) :
              chunks[i].startTime # windows[k].startTime
  /\ \A i \in 1..Len(chunks) :
       \E k \in 1..Len(windows) :
         /\ windows[k].startTime = chunks[i].startTime
         /\ WindowLength(windows[k]) = chunks[i].duration

\* A result with a chunk, whose last window was dropped as too short.
C2_Witness ==
  /\ promiseState = "resolved"
  /\ promiseChunks # <<>>
  /\ LastWindow.fate = "short"
  /\ WindowLength(LastWindow) > 0

\* C3: with chunkDuration <= 0 the invocation fails fast: no iteration of
\* the chunk loop runs and no chunks are delivered.
C3_NonPositiveFailsFast ==
  chunkDuration <= 0 => (windows = <<>> /\ promiseState # "resolved")

\* The windows that reached encodeWav, in the order generated.
KeptWindows == SelectSeq(windows, LAMBDA w : w.fate = "encode")

\* cs holds, in order, the chunks of the first Len(cs) kept windows.
ChunksOfKept(cs) ==
  /\ Len(cs) <= Len(KeptWindows)
  /\ \A i \in 1..Len(cs) :
       /\ cs[i].startTime = KeptWindows[i].startTime
       /\ cs[i].duration = WindowLength(KeptWindows[i])

\* C4: the chunks are those of the windows that passed both filters, in
\* window order, one chunk a window, each with the startTime k*chunkDuration
\* and the length of its own window; startTime increases strictly.
C4_ChunksInWindowOrder ==
  /\ ChunksOfKept(chunks)
  /\ Len(chunks) >= Len(KeptWindows) - 1
  /\ promiseState = "resolved" =>
       /\ ChunksOfKept(promiseChunks)
       /\ Len(promiseChunks) = Len(KeptWindows)
       /\ \A i \in 1..(Len(promiseChunks) - 1) :
            promiseChunks[i].startTime < promiseChunks[i + 1].startTime
       /\ \A i \in 1..Len(promiseChunks) :
            \E k \in 0..(Len(windows) - 1) :
              /\ promiseChunks[i].startTime = k * chunkDuration
              /\ windows[k + 1].fate = "encode"
              /\ promiseChunks[i].duration =
                   Min((k + 1) * chunkDuration, DurationOf(audio))
                     - k * chunkDuration

\* A result of two chunks with a dropped window between them.
C4_Witness ==
  /\ promiseState = "resolved"
  /\ Len(promiseChunks) = 2
  /\ promiseChunks[2].startTime >
       promiseChunks[1].startTime + promiseChunks[1].duration

\* The frames of window w: floor(startTime*rate) up to floor(endTime*rate).
FramesOf(w) ==
  {i \in 1..audio.length :
     /\ i > (w.startTime * audio.sampleRate) \div TicksPerSecond
     /\ i <= (w.endTime * audio.sampleRate) \div TicksPerSecond}

\* The numerator of the sum over the channels of frame i (the samples of
\* the model share the denominator 100).
RECURSIVE FrameSum(_, _)
FrameSum(i, c) ==
  IF c = 0 THEN 0 ELSE audio.channels[c][i].n + FrameSum(i, c - 1)

\* |mean over the channels| > 0.01, i.e. |sum|/100 > 0.01 * numberOfChannels.
LoudFrame(i) ==
  Abs(FrameSum(i, audio.numberOfChannels)) > audio.numberOfChannels

\* C5: a window of at least 0.1 s reaches encodeWav, and yields a chunk of
\* the result, exactly when one of its downmixed samples exceeds 0.01 in
\* absolute value.
C5_SilenceGate ==
  \A k \in 1..Len(windows) :
    LET w == windows[k]
        loud == \E i \in FramesOf(w) : LoudFrame(i)
    IN  WindowLength(w) * 10 >= TicksPerSecond =>
          /\ (w.fate = "encode") <=> loud
          /\ (w.fate = "silent") <=> ~loud
          /\ promiseState = "resolved" =>
               (loud <=> \E i \in 1..Len(promiseChunks) :
                           promiseChunks[i].startTime = w.startTime)

\* A window of at least 0.1 s whose loudest sample is exactly 0.01 was
\* dropped, another one was kept, and the result was delivered.
C5_Witness ==
  /\ promiseState = "resolved"
  /\ promiseChunks # <<>>
  /\ \E k \in 1..Len(windows) :
       /\ windows[k].fate = "silent"
       /\ \E i \in FramesOf(windows[k]) :
            Abs(FrameSum(i, audio.numberOfChannels)) = audio.numberOfChannels

\* C7: a failed step leaves the caller with an error and no chunk; chunks
\* are delivered only when no step failed and the loop ran to its end, and
\* they are then all the chunks built.
C7_AllOrNothing ==
  /\ failure # "none" =>
       /\ promiseState # "resolved"
       /\ promiseChunks = <<>>
       /\ \A i \in 1..Len(mainInbox) : mainInbox[i].type # "result"
       /\ handled > 0 => promiseState = "rejected"
  /\ promiseState = "rejected" => promiseChunks = <<>>
  /\ promiseState = "resolved" =>
       /\ failure = "none"
       /\ startTime >= DurationOf(audio)
       /\ promiseChunks = chunks

\* The conversion of a later chunk failed after a chunk was built, and the
\* caller got the error.
C7_Witness ==
  /\ failure = "base64"
  /\ chunks # <<>>
  /\ promiseState = "rejected"
  /\ promiseChunks = <<>>

\* C8 (state part): once a worker event was handled the worker is
\* terminated, the URL revoked and the promise settled; before that the
\* promise is not settled; a worker that has finished has queued an event.
C8_SettledAfterCleanup ==
  /\ handled > 0 =>
       /\ terminated
       /\ urlRevoked
       /\ promiseState \in {"resolved", "rejected"}
  /\ handled = 0 =>
       /\ ~terminated
       /\ ~urlRevoked
       /\ promiseState \in {"none", "pending"}
  /\ wpc = "done" => handled + Len(mainInbox) >= 1

promiseVars == <<promiseState, promiseChunks, promiseError>>

\* A step leaves a settled promise as it is.
SettledStays ==
  promiseState \in {"resolved", "rejected"} => UNCHANGED promiseVars

\* C8: the promise settles at most once (a settled promise never changes),
\* and it is settled, the worker terminated and the URL revoked as soon as
\* a worker event was handled.
C8_SettlesExactlyOnce ==
  /\ []C8_SettledAfterCleanup
  /\ [][SettledStays]_vars

\* Both the error message and the error event of a failed read were
\* handled; the promise keeps the first rejection.
C8_Witness ==
  /\ handled = 2
  /\ promiseState = "rejected"
  /\ promiseError = WorkerFailedMessage

(***************************************************************************)
(* Properties of encodeWav, checked under WavSpec.                         *)
(***************************************************************************)
\* The little-endian fields of a byte sequence, off counted from 0.
ReadU16(b, off) == b[off + 1] + 256 * b[off + 2]
ReadU32(b, off) ==
  b[off + 1] + 256 * b[off + 2] + 65536 * b[off + 3] + 16777216 * b[off + 4]
ReadI16(b, off) ==
  IF ReadU16(b, off) >= 32768 THEN ReadU16(b, off) - 65536 ELSE ReadU16(b, off)

\* C6: encodeWav returns 44 + 2n bytes with the canonical header: "RIFF",
\* ChunkSize 36 + 2n, "WAVE", "fmt ", 16, PCM, mono, the sample rate, the
\* byte rate 2r, block align 2, 16 bits, "data", Subchunk2Size 2n; for
\* n = 0 that is 44 bytes, Subchunk2Size 0 and ChunkSize 36.
C6_WavLayout ==
  wavPc = "encoded" =>
    LET len == Len(wavSamples) IN
    /\ Len(wavBlob) = 44 + 2 * len
    /\ \A i \in 1..Len(wavBlob) : wavBlob[i] \in 0..255
    /\ SubSeq(wavBlob, 1, 4) = <<82, 73, 70, 70>>
    /\ ReadU32(wavBlob, 4) = 36 + 2 * len
    /\ SubSeq(wavBlob, 9, 12) = <<87, 65, 86, 69>>
    /\ SubSeq(wavBlob, 13, 16) = <<102, 109, 116, 32>>
    /\ ReadU32(wavBlob, 16) = 16
    /\ ReadU16(wavBlob, 20) = 1
    /\ ReadU16(wavBlob, 22) = 1
    /\ ReadU32(wavBlob, 24) = wavRate
    /\ ReadU32(wavBlob, 28) = 2 * wavRate
    /\ ReadU16(wavBlob, 32) = 2
    /\ ReadU16(wavBlob, 34) = 16
    /\ SubSeq(wavBlob, 37, 40) = <<100, 97, 116, 97>>
    /\ ReadU32(wavBlob, 40) = 2 * len
    /\ len = 0 =>
         /\ Len(wavBlob) = 44
         /\ ReadU32(wavBlob, 40) = 0
         /\ ReadU32(wavBlob, 4) = 36

\* A non-empty array was encoded.
C6_Witness ==
  /\ wavPc = "encoded"
  /\ Len(wavSamples) >= 1
  /\ Len(wavBlob) = 44 + 2 * Len(wavSamples)

\* The 16-bit value stored for sample i.
StoredSample(i) == ReadI16(wavBlob, 44 + 2 * (i - 1))

\* C10: the value stored for a sample s is -32768 for s <= -1, 32767 for
\* s >= 1, 32768*s truncated toward zero for -1 < s < 0 and 32767*s
\* truncated toward zero for 0 <= s < 1 (so 0 for 0); it never wraps, and
\* it does not decrease when s increases.
C10_SampleConversion ==
  wavPc = "encoded" =>
    /\ \A i \in 1..Len(wavSamples) :
         LET s == wavSamples[i]
             v == StoredSample(i)
         IN  /\ v \in -32768..32767
             /\ s.n <= -s.d => v = -32768
             /\ s.n >= s.d => v = 32767
             /\ s.n = 0 => v = 0
             /\ (-s.d < s.n /\ s.n < 0) =>
                  /\ v <= 0
                  /\ v * s.d >= s.n * 32768
                  /\ (v - 1) * s.d < s.n * 32768
             /\ (0 <= s.n /\ s.n < s.d) =>
                  /\ v >= 0
                  /\ v * s.d <= s.n * 32767
                  /\ (v + 1) * s.d > s.n * 32767
    /\ \A i, j \in 1..Len(wavSamples) :
         RatLeq(wavSamples[i], wavSamples[j]) => StoredSample(i) <= StoredSample(j)

\* A sample below -1 and a sample above 1 were encoded.
C10_Witness ==
  /\ wavPc = "encoded"
  /\ \E i, j \in 1..Len(wavSamples) :
       /\ wavSamples[i].n < -wavSamples[i].d
       /\ wavSamples[j].n > wavSamples[j].d
       /\ StoredSample(i) = -32768
       /\ StoredSample(j) = 32767

(***************************************************************************)
(* Properties of the generation loop, checked under AppSpec.               *)
(***************************************************************************)
DigitValue(ch) == CHOOSE k \in 0..9 : DigitChars[k + 1] = ch

RECURSIVE NumberOf(_)
NumberOf(str) ==
  IF str = <<>> THEN 0
  ELSE 10 * NumberOf(SubSeq(str, 1, Len(str) - 1)) + DigitValue(str[Len(str)])

\* The time, in milliseconds, a timestamp H:M:S,m denotes.
MillisecondsOf(str) ==
  LET colons == {i \in 1..Len(str) : str[i] = ":"}
      c1 == CHOOSE i \in colons : \A j \in colons : i <= j
      c2 == CHOOSE i \in colons : \A j \in colons : i >= j
      comma == CHOOSE i \in 1..Len(str) : str[i] = ","
  IN  ((NumberOf(SubSeq(str, 1, c1 - 1)) * 60
          + NumberOf(SubSeq(str, c1 + 1, c2 - 1))) * 60
          + NumberOf(SubSeq(str, c2 + 1, comma - 1))) * 1000
        + NumberOf(SubSeq(str, comma + 1, Len(str)))

\* The timestamp str denotes the time t (in seconds) to the millisecond.
Denotes(str, t) == 2 * Abs(MillisecondsOf(str) * t.d - 1000 * t.n) <= t.d

\* The remote call returned a text with something other than spaces in it.
HasText(r) ==
  /\ r.outcome.kind = "text"
  /\ \E j \in 1..Len(r.outcome.text) : r.outcome.text[j] # " "

\* The chunks processed so far whose response has text.
TextChunks == {i \in 1..Len(responses) : HasText(responses[i])}

\* str is text without the spaces around it.
IsTrimOf(str, text) ==
  /\ str # <<>>
  /\ str[1] # " "
  /\ str[Len(str)] # " "
  /\ \E a \in 1..Len(text) :
       /\ SubSeq(text, a, a + Len(str) - 1) = str
       /\ \A j \in 1..Len(text) :
            (j < a \/ j >= a + Len(str)) => text[j] = " "

\* C9: generateSubtitleForChunk never raises; a chunk whose remote call
\* fails (or returns no text) is skipped and the loop goes on to the last
\* chunk; the entries are the chunks with text, in chunk order, each with
\* the timestamps of chunk.startTime and chunk.startTime + chunk.duration
\* and the trimmed text.
C9_FailedChunksSkipped ==
  /\ \A i \in 1..Len(responses) : ~responses[i].raised
  /\ Len(responses) = genI
  /\ (genPc = "idle" /\ audioChunks # <<>>) => Len(responses) = Len(audioChunks)
  /\ Len(allSubtitles) = Cardinality(TextChunks)
  /\ \A i \in TextChunks :
       LET entry == allSubtitles[Cardinality({j \in TextChunks : j <= i})]
           chunk == audioChunks[i]
       IN  /\ Denotes(entry.startTime, chunk.startTime)
           /\ Denotes(entry.endTime, RatAdd(chunk.startTime, chunk.duration))
           /\ IsTrimOf(entry.chineseText, responses[i].outcome.text)

\* The remote call failed for the first chunk, and the loop ended with an
\* entry for a later chunk.
C9_Witness ==
  /\ genPc = "idle"
  /\ Len(audioChunks) >= 2
  /\ responses[1].outcome.kind = "throw"
  /\ Len(responses) = Len(audioChunks)
  /\ allSubtitles # <<>>
  /\ subtitles = formatSrt(allSubtitles)

(***************************************************************************)
(* C11: the length of the mono sample array of a window.                   *)
(***************************************************************************)
\* The windows for which the loop built monoChannel.
MixedWindows == {k \in 1..Len(windows) : windows[k].fate # "short"}

\* monoChannel.length for the window windows[k].
MonoLength(k) ==
  Len(Downmix(audio, windows[k].startTime, windows[k].endTime))

\* round((endTime - startTime) * sampleRate) for the window windows[k].
RoundedLength(k) ==
  Round(WindowLength(windows[k]) * audio.sampleRate, TicksPerSecond)

\* floor(endTime * sampleRate) - floor(startTime * sampleRate).
FloorDifference(k) ==
  ((windows[k].endTime * audio.sampleRate) \div TicksPerSecond)
    - ((windows[k].startTime * audio.sampleRate) \div TicksPerSecond)

\* time * sampleRate is a whole number of samples.
WholeSamples(time) == (time * audio.sampleRate) % TicksPerSecond = 0

\* Length of the base64 text of a WAV file with n samples.
Base64LengthOfWav(n) == 4 * ((44 + 2 * n + 2) \div 3)

\* C11 as stated: for every window for which the mono sample array is
\* built, its length is round((endTime - startTime) * sampleRate).
C11_LengthIsRounded ==
  \A k \in MixedWindows : MonoLength(k) = RoundedLength(k)

\* C11 amended: the mono sample array of a window has
\* floor(endTime * sampleRate) - floor(startTime * sampleRate) samples; this
\* is within one sample of round((endTime - startTime) * sampleRate) and
\* equal to it when startTime * sampleRate and endTime * sampleRate are whole
\* numbers; every chunk pushed carries a WAV file of that many samples.
C11_LengthIsFloorDifference ==
  /\ \A k \in MixedWindows :
       /\ MonoLength(k) = FloorDifference(k)
       /\ Abs(MonoLength(k) - RoundedLength(k)) <= 1
       /\ (WholeSamples(windows[k].startTime) /\ WholeSamples(windows[k].endTime))
            => MonoLength(k) = RoundedLength(k)
  /\ \A j \in 1..Len(chunks) :
       \E k \in MixedWindows :
         /\ windows[k].startTime = chunks[j].startTime
         /\ Len(chunks[j].base64) = Base64LengthOfWav(FloorDifference(k))

\* A chunk was pushed for a window whose end is not on a sample boundary and
\* whose sample array is shorter than the rounded length.
C11_Witness ==
  \E k \in MixedWindows :
    /\ ~WholeSamples(windows[k].endTime)
    /\ MonoLength(k) < RoundedLength(k)
    /\ \E j \in 1..Len(chunks) : chunks[j].startTime = windows[k].startTime

(***************************************************************************)
(* C12: the two implementations of the extraction.                         *)
(***************************************************************************)
BothResolved == promiseState = "resolved" /\ prePromiseState = "resolved"

\* C12: on the same decoded audio and the same chunkDuration > 0, the
\* implementation that is handed the decoded channels generates the windows
\* of the implementation that decodes in the worker, emits a chunk for
\* exactly the same windows (a window it skips for having no frame is one
\* the other drops as silent), and resolves with the same chunk sequence:
\* same start times, durations and WAV bytes.
C12_SameChunks ==
  /\ Len(preWindows) <= Len(windows)
  /\ \A k \in 1..Len(preWindows) :
       /\ preWindows[k].startTime = windows[k].startTime
       /\ preWindows[k].endTime = windows[k].endTime
       /\ (preWindows[k].fate = "encode") <=> (windows[k].fate = "encode")
       /\ preWindows[k].fate = "noFrames" => windows[k].fate = "silent"
  /\ BothResolved =>
       /\ prePromiseChunks = promiseChunks
       /\ Len(preWindows) = Len(windows)

\* Both calls resolved with a chunk, and the second one skipped a window
\* for having no frame.
C12_Witness ==
  /\ BothResolved
  /\ prePromiseChunks # <<>>
  /\ \E k \in 1..Len(preWindows) : preWindows[k].fate = "noFrames"

(***************************************************************************)
(* C13: a file is selected while handleGenerateClick is running.           *)
(***************************************************************************)
\* {!isLoading && !error && subtitles && (...)} (src/App.tsx:209)
SubtitlesDisplayed == ~isLoading /\ appError = NullError /\ subtitles # <<>>

\* C13: whenever subtitles are displayed (subtitles non-empty, isLoading
\* false, error null), they were generated from the file that is selected.
C13_SubtitlesOfSelectedFile ==
  SubtitlesDisplayed => subtitlesOf = videoFile

(***************************************************************************)
(* C14: the fields of the string formatTimestamp returns.                  *)
(***************************************************************************)
\* The four fields of a string H:M:S,m.
TimestampFields(str) ==
  LET colons == {i \in 1..Len(str) : str[i] = ":"}
      c1 == CHOOSE i \in colons : \A j \in colons : i <= j
      c2 == CHOOSE i \in colons : \A j \in colons : i >= j
      comma == CHOOSE i \in 1..Len(str) : str[i] = ","
  IN  [hours |-> SubSeq(str, 1, c1 - 1),
       minutes |-> SubSeq(str, c1 + 1, c2 - 1),
       seconds |-> SubSeq(str, c2 + 1, comma - 1),
       milliseconds |-> SubSeq(str, comma + 1, Len(str))]

IsDigits(str) == \A i \in 1..Len(str) : \E k \in 1..10 : DigitChars[k] = str[i]

\* C14: for every non-negative time, formatTimestamp returns HH:MM:SS,mmm
\* with minutes and seconds two digits in 00..59 and milliseconds exactly
\* three digits (000..999), and the time the string denotes differs from the
\* input by at most one millisecond.
C14_TimestampWellFormed ==
  fmtPc = "formatted" =>
    LET f == TimestampFields(fmtOutput)
        whole == (NumberOf(f.hours) * 60 + NumberOf(f.minutes)) * 60
                   + NumberOf(f.seconds)
        wholeIn == fmtInput.n \div fmtInput.d
        fractionIn == fmtInput.n % fmtInput.d
    IN  /\ Cardinality({i \in 1..Len(fmtOutput) : fmtOutput[i] = ":"}) = 2
        /\ Cardinality({i \in 1..Len(fmtOutput) : fmtOutput[i] = ","}) = 1
        /\ IsDigits(f.hours) /\ Len(f.hours) >= 2
        /\ IsDigits(f.minutes) /\ Len(f.minutes) = 2 /\ NumberOf(f.minutes) <= 59
        /\ IsDigits(f.seconds) /\ Len(f.seconds) = 2 /\ NumberOf(f.seconds) <= 59
        /\ IsDigits(f.milliseconds) /\ Len(f.milliseconds) = 3
        /\ whole = wholeIn
        /\ Abs(NumberOf(f.milliseconds) * fmtInput.d - 1000 * fractionIn)
             <= fmtInput.d

====
